---- MODULE Spec2Model ----
(***************************************************************************)
(* Model of AmxxBuilder (src/src/builder/builder.ts): the batch build,     *)
(* the watch mode and the per-file actions they share.                      *)
(*                                                                          *)
(* A path is a sequence of segments; an absolute path starts with "/".      *)
(* Every asynchronous call (mkdirp, copyFile, amxxpc) is an event appended  *)
(* to `trace` when it is started and another one when it settles, so that   *)
(* `trace` is the order in which the program touches the file system, the   *)
(* compiler and the logger.                                                 *)
(***************************************************************************)
EXTENDS Integers, Sequences, FiniteSets, TLC

\* ---------------------------------------------------------------- bounds
\* matches a scan returns at most
MaxMatches == 2
\* diagnostics the compiler emits in one run of the program, at most
MaxDiagnostics == 2
\* watch events in one run, at most
MaxEvents == 2
\* direct calls of a per-file method in one run, at most
MaxCalls == 1

\* ---------------------------------------------------------------- paths
Cwd == <<"/", "proj">>

IsAbsolute(p) == Len(p) > 0 /\ p[1] = "/"

\* path.resolve(p)
Resolve(p) == IF IsAbsolute(p) THEN p ELSE Cwd \o p

\* path.join(a, b)
Join(a, b) == a \o b

Front(p) == SubSeq(p, 1, Len(p) - 1)

\* path.parse(p).dir and path.parse(p).base
ParseDir(p) == Front(p)
ParseBase(p) == p[Len(p)]

IsPrefix(a, b) == Len(a) <= Len(b) /\ SubSeq(b, 1, Len(a)) = a

NotFound == [found |-> FALSE, rel |-> <<>>]

\* findRelativePath(dirs, target): the first directory of dirs that contains
\* target wins, the result is target relative to it.
RECURSIVE findRelativePath(_, _)
findRelativePath(dirs, target) ==
  IF dirs = <<>> THEN NotFound
  ELSE IF IsPrefix(Resolve(Head(dirs)), Resolve(target))
       THEN [found |-> TRUE,
             rel |-> SubSeq(Resolve(target), Len(Resolve(Head(dirs))) + 1,
                            Len(Resolve(target)))]
       ELSE findRelativePath(Tail(dirs), target)

\* the `if (!relativePath) throw` left out
Falsy_noCheck(r) == FALSE

\* JavaScript's !relativePath: null and the empty string are both falsy
Falsy(r) == ~r.found \/ r.rel = <<>>

\* ---------------------------------------------------------------- config
InputScripts == <<"scripts">>
InputInclude == <<"include">>
InputAssets == <<"assets">>
OutputScripts == <<"dist", "scripting">>
OutputPlugins == <<"dist", "plugins">>
OutputInclude == <<"dist", "include">>
OutputAssets == <<"dist", "assets">>

\* lodash castArray of a single configured directory
castArray(d) == <<d>>

Kinds == {"assets", "include", "src"}

BaseDir(kind) ==
  CASE kind = "assets" -> InputAssets
    [] kind = "include" -> InputInclude
    [] kind = "src" -> InputScripts

Ext(kind) ==
  CASE kind = "assets" -> ".wad"
    [] kind = "include" -> ".inc"
    [] kind = "src" -> ".sma"

\* The i-th file a scan of `kind` finds: odd files lie directly in the base
\* directory, even files in a sub-directory of it and carry the base name of
\* the file before them.
Stem(i) == "f" \o ToString(IF i % 2 = 1 THEN i ELSE i - 1)

FileAt(kind, i) ==
  IF i % 2 = 1
  THEN Join(BaseDir(kind), <<Stem(i) \o Ext(kind)>>)
  ELSE Join(BaseDir(kind), <<"sub", Stem(i) \o Ext(kind)>>)

\* a file outside every configured input directory
OutsideFile(kind) == <<"other", "x" \o Ext(kind)>>

\* globule.find(base/pattern, {nodir: true}): the files under the base, in order
ScanResults(kind) ==
  { [i \in 1..n |-> FileAt(kind, i)] : n \in 0..MaxMatches }


\* ---------------------------------------------------------------- state
VARIABLES
  cfg,          \* the project configuration, fixed for the run
  ignoreErrors, \* options.ignoreErrors of the running build()
  bstep,        \* where build() is: "idle", "scan", "chain", "returned", "thrown";
                \* "watching" once watch() has returned
  phase,        \* the buildDir in progress: "assets", "include" or "src"
  matches,      \* the matches of the scan of the buildDir in progress
  idx,          \* how many matches had their callback started
  acc,          \* the accumulator promise of the reduce: "resolved", "pending", "rejected"
  success,      \* the local `success` of buildSrc
  tasks,        \* every per-file action started so far, in start order
  trace,        \* every file-system, compiler and logger call so far, in order
  watchers,     \* the kinds whose watcher has its add/change listeners registered
  emitted       \* diagnostics emitted by the compiler so far

vars == <<cfg, ignoreErrors, bstep, phase, matches, idx, acc, success,
          tasks, trace, watchers, emitted>>

Configs ==
  [flatCompilation : BOOLEAN,   \* config.rules.flatCompilation
   inputAssets : BOOLEAN,       \* config.input.assets is set
   outputScripts : BOOLEAN]     \* config.output.scripts is set

\* ---------------------------------------------------------------- events
Ev(op, t, lvl, txt, p, n) ==
  [op |-> op, t |-> t, lvl |-> lvl, txt |-> txt, p |-> p, n |-> n]

\* a file-system or compiler call of task t on path p
Io(op, t, p) == Ev(op, t, "", "", p, 0)

\* logger.<lvl>(txt, p) issued by task t (0: build() itself)
Log(lvl, t, txt, p) == Ev("log", t, lvl, txt, p, 0)

\* ---------------------------------------------------------------- compiler
Severities == {"FatalError", "Error", "Warning", "Echo"}

MsgSeqs(k) == UNION { [1..n -> Severities] : n \in 0..k }

\* what amxxpc can resolve with when it may still emit k diagnostics: a
\* diagnostic of severity FatalError or Error makes the result a failure; a
\* result can also be a failure without any (result.error)
AmxxpcResults(k) ==
  { r \in [success : BOOLEAN, messages : MsgSeqs(k)] :
      r.success =>
        \A i \in 1..Len(r.messages) : r.messages[i] \notin {"FatalError", "Error"} }

Stems == { Stem(i) : i \in 1..(MaxMatches + 1) } \cup {"x"}

\* result.plugin: the artifact's file name
PluginName(base) == (CHOOSE s \in Stems : s \o ".sma" = base) \o ".amxx"

\* the chain testing `type === Error` only
LevelOf_noFatalError(type) ==
  IF type = "Error" THEN "error"
  ELSE IF type = "Warning" THEN "warn"
  ELSE IF type = "Echo" THEN "debug"
  ELSE "none"

\* the logger level of one diagnostic: the if / else-if chain of the forEach
LevelOf(type) ==
  IF type = "Error" \/ type = "FatalError" THEN "error"
  ELSE IF type = "Warning" THEN "warn"
  ELSE IF type = "Echo" THEN "debug"
  ELSE "none"

\* result.output.messages.forEach(...): one log call per message, in order
DiagnosticLogs(t, file, messages) ==
  SelectSeq([i \in 1..Len(messages) |->
               Ev("log", t, LevelOf(messages[i]), messages[i], file, i)],
            LAMBDA e : e.lvl # "none")

\* ---------------------------------------------------------------- per-file actions
\* A task is one call of updateAsset, updateInclude or updatePlugin.
\*   pc: "mkdir"  awaiting mkdirp of the copy's directory
\*       "copy"   awaiting copyFile
\*       "cmkdir" awaiting mkdirp of the plugin directory
\*       "compile" awaiting amxxpc
\*       "done" resolved, "failed" rejected with err
\*   result: <<r>> once amxxpc has resolved with r
Task(kind, file, pc, dir, dest, err) ==
  [kind |-> kind, file |-> file, pc |-> pc, dir |-> dir, dest |-> dest,
   err |-> err, caught |-> FALSE, result |-> <<>>]

\* an operator's outcome: the task as it stands at the next await, and the
\* calls made on the way
Out(task, evs) == [task |-> task, evs |-> evs]

\* compilePlugin that mirrors the source directory whatever the rule says
PluginDestDir_alwaysMirrors(filePath) ==
  LET srcPath == Resolve(filePath)
      destDir == Resolve(OutputPlugins)
      relativePath == findRelativePath(castArray(InputScripts), ParseDir(srcPath))
  IN  IF Falsy(relativePath) THEN [ok |-> FALSE, dir |-> <<>>]
      ELSE [ok |-> TRUE, dir |-> Join(destDir, relativePath.rel)]

\* destDir of compilePlugin
PluginDestDir(filePath) ==
  LET srcPath == Resolve(filePath)
      destDir == Resolve(OutputPlugins)
      relativePath == findRelativePath(castArray(InputScripts), ParseDir(srcPath))
  IN  IF cfg.flatCompilation THEN [ok |-> TRUE, dir |-> destDir]
      ELSE IF Falsy(relativePath) THEN [ok |-> FALSE, dir |-> <<>>]
      ELSE [ok |-> TRUE, dir |-> Join(destDir, relativePath.rel)]

\* compilePlugin up to `await mkdirp(destDir)`
compilePlugin(t, filePath) ==
  LET d == PluginDestDir(filePath)
  IN  IF ~d.ok
      THEN Out(Task("src", filePath, "failed", <<>>, <<>>, "path"), <<>>)
      ELSE Out(Task("src", filePath, "cmkdir", d.dir, <<>>, ""),
               <<Io("mkdir", t, d.dir)>>)

\* updatePlugin that never calls updateScript
updatePlugin_skipCopy(t, filePath) == compilePlugin(t, filePath)

\* updateScript up to `await mkdirp(...)`, or compilePlugin when it returns at once
updatePlugin(t, filePath) ==
  IF ~cfg.outputScripts
  THEN compilePlugin(t, filePath)
  ELSE Out(Task("src", filePath, "mkdir", OutputScripts,
                Join(OutputScripts, <<ParseBase(filePath)>>), ""),
           <<Io("mkdir", t, OutputScripts)>>)

\* updateAsset creating the assets output root instead of the file's directory
updateAsset_mkdirRoot(t, filePath) ==
  LET relativePath == findRelativePath(castArray(InputAssets), filePath)
      destPath == Join(OutputAssets, relativePath.rel)
  IN  IF Falsy(relativePath)
      THEN Out(Task("assets", filePath, "failed", <<>>, <<>>, "path"), <<>>)
      ELSE Out(Task("assets", filePath, "mkdir", OutputAssets, destPath, ""),
               <<Io("mkdir", t, OutputAssets)>>)

\* updateAsset up to `await mkdirp(...)`
updateAsset(t, filePath) ==
  LET relativePath == findRelativePath(castArray(InputAssets), filePath)
      destPath == Join(OutputAssets, relativePath.rel)
  IN  IF Falsy(relativePath)
      THEN Out(Task("assets", filePath, "failed", <<>>, <<>>, "path"), <<>>)
      ELSE Out(Task("assets", filePath, "mkdir", ParseDir(destPath), destPath, ""),
               <<Io("mkdir", t, ParseDir(destPath))>>)

\* updateInclude keeping the file's path below the include input directory
updateInclude_keepsSubDir(t, filePath) ==
  Out(Task("include", filePath, "mkdir", OutputInclude,
           Join(OutputInclude, Tail(filePath)), ""),
      <<Io("mkdir", t, OutputInclude)>>)

\* updateInclude up to `await mkdirp(...)`
updateInclude(t, filePath) ==
  Out(Task("include", filePath, "mkdir", OutputInclude,
           Join(OutputInclude, <<ParseBase(filePath)>>), ""),
      <<Io("mkdir", t, OutputInclude)>>)

\* the callback buildDir / watchDir is given for `kind`
Callback(kind, t, filePath) ==
  CASE kind = "assets" -> updateAsset(t, filePath)
    [] kind = "include" -> updateInclude(t, filePath)
    [] kind = "src" -> updatePlugin(t, filePath)

UpdatedText(kind) ==
  CASE kind = "assets" -> "Asset updated"
    [] kind = "include" -> "Include updated:"
    [] kind = "src" -> "Script updated:"

Settled(task) == task.pc \in {"done", "failed"}

InFlight == { t \in 1..Len(tasks) : ~Settled(tasks[t]) }

\* what a task does when its mkdirp settles
AfterMkdirp(t, task, ok) ==
  IF ~ok
  THEN Out([task EXCEPT !.pc = "failed", !.err = "io"],
           <<Io("mkdirFail", t, task.dir)>>)
  ELSE IF task.pc = "mkdir"
  THEN Out([task EXCEPT !.pc = "copy"],
           <<Io("mkdirOk", t, task.dir), Io("copy", t, task.dest)>>)
  ELSE Out([task EXCEPT !.pc = "compile"],
           <<Io("mkdirOk", t, task.dir), Io("compile", t, task.dir)>>)

\* what a task does when its copyFile settles
AfterCopyFile(t, task, ok) ==
  IF ~ok
  THEN Out([task EXCEPT !.pc = "failed", !.err = "io"],
           <<Io("copyFail", t, task.dest)>>)
  ELSE LET evs == <<Io("copyOk", t, task.dest),
                    Log("info", t, UpdatedText(task.kind), task.dest)>>
           next == compilePlugin(t, task.file)
       IN  IF task.kind = "src"
           THEN Out([next.task EXCEPT !.dest = task.dest], evs \o next.evs)
           ELSE Out([task EXCEPT !.pc = "done"], evs)

\* compilePlugin that never looks at result.success
AfterAmxxpc_noThrow(t, task, result) ==
  LET destPath == Join(task.dir, <<PluginName(ParseBase(task.file))>>)
  IN  Out([task EXCEPT !.pc = "done", !.result = <<result>>],
          <<Io("compileRet", t, task.dir)>>
            \o DiagnosticLogs(t, task.file, result.messages)
            \o <<Log("success", t, "Compilation success:", task.file),
                 Log("info", t, "Plugin updated:", destPath)>>)

\* compilePlugin that also throws when the result carries a diagnostic
AfterAmxxpc_strict(t, task, result) ==
  LET destPath == Join(task.dir, <<PluginName(ParseBase(task.file))>>)
      evs == <<Io("compileRet", t, task.dir)>>
               \o DiagnosticLogs(t, task.file, result.messages)
  IN  IF result.success /\ result.messages = <<>>
      THEN Out([task EXCEPT !.pc = "done", !.result = <<result>>],
               evs \o <<Log("success", t, "Compilation success:", task.file),
                        Log("info", t, "Plugin updated:", destPath)>>)
      ELSE Out([task EXCEPT !.pc = "failed", !.err = "compile",
                            !.result = <<result>>], evs)

\* what compilePlugin does when amxxpc resolves with result
AfterAmxxpc(t, task, result) ==
  LET destPath == Join(task.dir, <<PluginName(ParseBase(task.file))>>)
      evs == <<Io("compileRet", t, task.dir)>>
               \o DiagnosticLogs(t, task.file, result.messages)
  IN  IF result.success
      THEN Out([task EXCEPT !.pc = "done", !.result = <<result>>],
               evs \o <<Log("success", t, "Compilation success:", task.file),
                        Log("info", t, "Plugin updated:", destPath)>>)
      ELSE Out([task EXCEPT !.pc = "failed", !.err = "compile",
                            !.result = <<result>>], evs)

\* updateFn without its .catch
updateFn_noCatch(t, out) == out

\* updateFn of watchDir: cb(filePath).catch((err) => logger.error(err.message)).
\* The catch handler runs as soon as the callback's promise rejects.
updateFn(t, out) ==
  IF out.task.pc = "failed"
  THEN Out([out.task EXCEPT !.caught = TRUE],
           Append(out.evs, Log("error", t, out.task.err, out.task.file)))
  ELSE out

\* who started the tasks: a watcher's updateFn, or an awaiting caller
Wrapped(t, out) == IF bstep = "watching" THEN updateFn(t, out) ELSE out

Apply(t, out) ==
  /\ tasks' = [tasks EXCEPT ![t] = Wrapped(t, out).task]
  /\ trace' = trace \o Wrapped(t, out).evs

\* mkdirp settles
MkdirpSettle(t) ==
  /\ tasks[t].pc \in {"mkdir", "cmkdir"}
  /\ \E ok \in BOOLEAN : Apply(t, AfterMkdirp(t, tasks[t], ok))
  /\ UNCHANGED <<cfg, ignoreErrors, bstep, phase, matches, idx, acc,
                 success, watchers, emitted>>

\* fs.promises.copyFile settles
CopyFileSettle(t) ==
  /\ tasks[t].pc = "copy"
  /\ \E ok \in BOOLEAN : Apply(t, AfterCopyFile(t, tasks[t], ok))
  /\ UNCHANGED <<cfg, ignoreErrors, bstep, phase, matches, idx, acc,
                 success, watchers, emitted>>

\* amxxpc resolves
AmxxpcSettle(t) ==
  /\ tasks[t].pc = "compile"
  /\ \E result \in AmxxpcResults(MaxDiagnostics - emitted) :
       /\ Apply(t, AfterAmxxpc(t, tasks[t], result))
       /\ emitted' = emitted + Len(result.messages)
  /\ UNCHANGED <<cfg, ignoreErrors, bstep, phase, matches, idx, acc,
                 success, watchers>>


\* ---------------------------------------------------------------- build()
\* buildAssets without its check of config.input.assets
FirstPhase_noCheck == "assets"

\* buildAssets returns at once when no assets input is configured
FirstPhase == IF cfg.inputAssets THEN "assets" ELSE "include"

\* build() awaits buildAssets, then buildInclude, then buildSrc
NextPhase(ph) == IF ph = "assets" THEN "include" ELSE "src"

\* build(options) up to the first scan: logs 'Building...'; buildAssets
\* returns at once when no assets input is configured
Build ==
  /\ bstep = "idle"
  /\ \E o \in BOOLEAN : ignoreErrors' = o
  /\ trace' = Append(trace, Log("info", 0, "Building...", <<>>))
  /\ phase' = FirstPhase
  /\ bstep' = "scan"
  /\ UNCHANGED <<cfg, matches, idx, acc, success, tasks, watchers, emitted>>

\* buildDir: globule.find
BuildDirScan ==
  /\ bstep = "scan"
  /\ \E m \in ScanResults(phase) : matches' = m
  /\ trace' = Append(trace, Io("scan", 0, BaseDir(phase)))
  /\ idx' = 0
  /\ acc' = "resolved"
  /\ bstep' = "chain"
  /\ UNCHANGED <<cfg, ignoreErrors, phase, success, tasks, watchers, emitted>>

\* callbacks started without waiting for the one before (matches.map(cb))
MayStart_eager(a) == a # "rejected"

\* acc.then(() => cb(match)): the callback of a match runs once the
\* accumulator has resolved
MayStart(a) == a = "resolved"

\* the reduce chain starts the callback of the next match
ChainStep ==
  /\ bstep = "chain"
  /\ MayStart(acc)
  /\ idx < Len(matches)
  /\ LET t == Len(tasks) + 1
         out == Callback(phase, t, matches[idx + 1])
     IN  /\ tasks' = Append(tasks, out.task)
         /\ trace' = trace \o out.evs
  /\ idx' = idx + 1
  /\ acc' = "pending"
  /\ UNCHANGED <<cfg, ignoreErrors, bstep, phase, matches, success, watchers,
                 emitted>>

\* buildSrc's catch without `success = false`
OnReject_keepsSuccess(ph, ignore, succ) ==
  IF ph = "src" /\ ignore
  THEN [acc |-> "resolved", success |-> succ]
  ELSE [acc |-> "rejected", success |-> succ]

\* buildSrc's catch swallowing the error whatever ignoreErrors is
OnReject_neverThrows(ph, ignore, succ) ==
  IF ph = "src"
  THEN [acc |-> "resolved", success |-> FALSE]
  ELSE [acc |-> "rejected", success |-> succ]

\* buildSrc's callback without its try / catch
OnReject_noCatch(ph, ignore, succ) ==
  [acc |-> "rejected", success |-> succ]

\* what the callback's promise settles to when the per-file action rejects:
\* buildSrc's callback catches, the other two callbacks do not
OnReject(ph, ignore, succ) ==
  IF ph = "src" /\ ignore
  THEN [acc |-> "resolved", success |-> FALSE]
  ELSE [acc |-> "rejected", success |-> succ]

\* the callback of the current match settles
CbSettle ==
  /\ bstep = "chain"
  /\ acc = "pending"
  /\ Settled(tasks[Len(tasks)])
  /\ LET r == IF tasks[Len(tasks)].pc = "done"
              THEN [acc |-> "resolved", success |-> success]
              ELSE OnReject(phase, ignoreErrors, success)
     IN  /\ acc' = r.acc
         /\ success' = r.success
  /\ UNCHANGED <<cfg, ignoreErrors, bstep, phase, matches, idx, tasks, trace,
                 watchers, emitted>>

\* build() whose else branch logs no terminal line
TerminalLine_noErrorLine(succ) ==
  IF succ THEN Log("success", 0, "Build finished!", <<>>)
  ELSE Log("info", 0, "Building...", <<>>)

\* the terminal line of build()
TerminalLine(succ) ==
  IF succ THEN Log("success", 0, "Build finished!", <<>>)
  ELSE Log("error", 0, "Build finished with errors!", <<>>)

\* the chain of a buildDir has resolved: build() goes on to its next phase,
\* and after buildSrc logs its terminal line
BuildDirDone ==
  /\ bstep = "chain"
  /\ acc = "resolved"
  /\ idx = Len(matches)
  /\ IF phase = "src"
     THEN /\ bstep' = "returned"
          /\ trace' = Append(trace, TerminalLine(success))
          /\ UNCHANGED <<phase, success>>
     ELSE /\ bstep' = "scan"
          /\ phase' = NextPhase(phase)
          /\ success' = TRUE
          /\ UNCHANGED trace
  /\ UNCHANGED <<cfg, ignoreErrors, matches, idx, acc, tasks, watchers, emitted>>

\* the chain has rejected: the rejection leaves buildDir, the phase and build()
BuildDirReject ==
  /\ bstep = "chain"
  /\ acc = "rejected"
  /\ bstep' = "thrown"
  /\ UNCHANGED <<cfg, ignoreErrors, phase, matches, idx, acc, success, tasks,
                 trace, watchers, emitted>>

\* ---------------------------------------------------------------- watch()
\* the watchers watch() registers, in order
WatchKinds == IF cfg.inputAssets THEN <<"assets", "include", "src">>
              ELSE <<"include", "src">>

\* watch(): watchAssets, watchInclude, watchSrc
Watch ==
  /\ bstep = "idle"
  /\ watchers' = { WatchKinds[i] : i \in 1..Len(WatchKinds) }
  /\ trace' = trace \o [i \in 1..Len(WatchKinds) |-> Io("watch", 0, BaseDir(WatchKinds[i]))]
  /\ bstep' = "watching"
  /\ UNCHANGED <<cfg, ignoreErrors, phase, matches, idx, acc, success, tasks,
                 emitted>>

\* an 'add' or 'change' event of a watcher: updateFn calls the callback
WatchEvent(kind, i) ==
  /\ bstep = "watching"
  /\ kind \in watchers
  /\ Len(tasks) < MaxEvents
  /\ LET t == Len(tasks) + 1
         out == updateFn(t, Callback(kind, t, FileAt(kind, i)))
     IN  /\ tasks' = Append(tasks, out.task)
         /\ trace' = trace \o out.evs
  /\ UNCHANGED <<cfg, ignoreErrors, bstep, phase, matches, idx, acc, success,
                 watchers, emitted>>

\* ---------------------------------------------------------------- direct calls
Methods == {"updateAsset", "updateInclude", "updatePlugin", "compilePlugin"}

KindOf(method) ==
  CASE method = "updateAsset" -> "assets"
    [] method = "updateInclude" -> "include"
    [] OTHER -> "src"

Invoke(method, t, filePath) ==
  IF method = "compilePlugin" THEN compilePlugin(t, filePath)
  ELSE Callback(KindOf(method), t, filePath)

\* the paths a caller may pass: files of every input directory, and one that
\* no input directory contains
CallPaths(kind) == { FileAt(kind, i) : i \in 1..MaxMatches } \cup {OutsideFile(kind)}

\* a caller awaits one public method of the builder, then calls the next
Call(method, filePath) ==
  /\ bstep = "idle"
  /\ InFlight = {}
  /\ Len(tasks) < MaxCalls
  /\ LET t == Len(tasks) + 1
         out == Invoke(method, t, filePath)
     IN  /\ tasks' = Append(tasks, out.task)
         /\ trace' = trace \o out.evs
  /\ UNCHANGED <<cfg, ignoreErrors, bstep, phase, matches, idx, acc, success,
                 watchers, emitted>>

\* ---------------------------------------------------------------- specifications
Init ==
  /\ cfg \in Configs
  /\ ignoreErrors = FALSE
  /\ bstep = "idle"
  /\ phase = "assets"
  /\ matches = <<>>
  /\ idx = 0
  /\ acc = "resolved"
  /\ success = TRUE
  /\ tasks = <<>>
  /\ trace = <<>>
  /\ watchers = {}
  /\ emitted = 0

\* one build()
Next ==
  \/ Build
  \/ BuildDirScan
  \/ ChainStep
  \/ CbSettle
  \/ BuildDirDone
  \/ BuildDirReject
  \/ \E t \in 1..Len(tasks) : MkdirpSettle(t)
  \/ \E t \in 1..Len(tasks) : CopyFileSettle(t)
  \/ \E t \in 1..Len(tasks) : AmxxpcSettle(t)

Spec == Init /\ [][Next]_vars

\* one watch() and the events that follow it
NextWatch ==
  \/ Watch
  \/ \E kind \in Kinds, i \in 1..MaxMatches : WatchEvent(kind, i)
  \/ \E t \in 1..Len(tasks) : MkdirpSettle(t)
  \/ \E t \in 1..Len(tasks) : CopyFileSettle(t)
  \/ \E t \in 1..Len(tasks) : AmxxpcSettle(t)

SpecWatch == Init /\ [][NextWatch]_vars

\* a caller of the builder's public per-file methods
NextCall ==
  \/ \E method \in Methods : \E filePath \in CallPaths(KindOf(method)) :
       Call(method, filePath)
  \/ \E t \in 1..Len(tasks) : MkdirpSettle(t)
  \/ \E t \in 1..Len(tasks) : CopyFileSettle(t)
  \/ \E t \in 1..Len(tasks) : AmxxpcSettle(t)

SpecCall == Init /\ [][NextCall]_vars


\* ---------------------------------------------------------------- properties
TaskIds == 1..Len(tasks)

SrcTasks == { t \in TaskIds : tasks[t].kind = "src" }

Compiled(t) == tasks[t].result # <<>>

CompileSucceeded(t) == Compiled(t) /\ tasks[t].result[1].success

\* buildSrc is over: it has returned to build(), or thrown
BuildSrcOver == phase = "src" /\ bstep \in {"returned", "thrown"}

\* every matched script has a compile that succeeded
EveryCompileSucceeded ==
  \A i \in 1..Len(matches) :
    \E t \in SrcTasks : tasks[t].file = matches[i] /\ CompileSucceeded(t)

\* C1: once the script build is over, it has reported success (returned true,
\* and build() logged the success line) if and only if the compile of every
\* matched script succeeded, whatever ignoreErrors is.
C1_AggregateSuccess ==
  BuildSrcOver =>
    /\ (bstep = "returned" /\ success) <=> EveryCompileSucceeded
    /\ bstep = "returned" =>
         trace[Len(trace)] =
           IF EveryCompileSucceeded
           THEN Log("success", 0, "Build finished!", <<>>)
           ELSE Log("error", 0, "Build finished with errors!", <<>>)

\* a batch of two scripts that ran to its end with ignoreErrors, one compile
\* succeeding and the other failing
C1_Witness ==
  /\ BuildSrcOver
  /\ bstep = "returned"
  /\ ignoreErrors
  /\ Len(matches) = 2
  /\ \E t, u \in SrcTasks :
       /\ CompileSucceeded(t)
       /\ Compiled(u) /\ ~CompileSucceeded(u)

\* C2: with ignoreErrors = false a failed script is the last one the batch
\* ever starts: no callback follows it, nothing is copied or compiled after
\* it, and the failure leaves buildSrc and build() (they never return).
C2_StopsAtFirstFailure ==
  \A t \in SrcTasks :
    (phase = "src" /\ ~ignoreErrors /\ tasks[t].pc = "failed") =>
      /\ t = Len(tasks)
      /\ \A j \in 1..Len(trace) : trace[j].t <= t
      /\ acc # "resolved"
      /\ bstep \in {"chain", "thrown"}
      /\ bstep = "thrown" => idx = Cardinality(SrcTasks)

\* the first of two matched scripts failed to compile, build() has thrown and
\* the second script was never started
C2_Witness ==
  /\ phase = "src" /\ ~ignoreErrors /\ bstep = "thrown"
  /\ Len(matches) = 2 /\ idx = 1
  /\ Cardinality(SrcTasks) = 1
  /\ \E t \in SrcTasks : Compiled(t) /\ ~CompileSucceeded(t)

\* C3: with ignoreErrors = true the callbacks started so far are those of the
\* first idx matches, one each, in scan order, whether or not earlier ones
\* failed; buildSrc never throws, returns only after every match was
\* attempted, and returns false if any of them failed.
C3_AllAttempted ==
  (phase = "src" /\ bstep # "scan" /\ ignoreErrors) =>
    /\ Cardinality(SrcTasks) = idx
    /\ \A i \in 1..idx : tasks[Len(tasks) - idx + i].file = matches[i]
    /\ \A i \in 1..idx : tasks[Len(tasks) - idx + i].kind = "src"
    /\ bstep # "thrown" /\ acc # "rejected"
    /\ bstep = "returned" =>
         /\ idx = Len(matches)
         /\ (\E t \in SrcTasks : tasks[t].pc = "failed") => ~success

\* the first of two scripts failed, the second was still compiled, and
\* buildSrc returned false
C3_Witness ==
  /\ phase = "src" /\ ignoreErrors /\ bstep = "returned" /\ ~success
  /\ Len(matches) = 2 /\ Len(tasks) >= 2
  /\ tasks[Len(tasks) - 1].kind = "src" /\ tasks[Len(tasks) - 1].pc = "failed"
  /\ tasks[Len(tasks)].pc = "done"


IsTerminal(e) ==
  /\ e.op = "log" /\ e.t = 0
  /\ \/ e.lvl = "success" /\ e.txt = "Build finished!"
     \/ e.lvl = "error" /\ e.txt = "Build finished with errors!"

TerminalLines == { j \in 1..Len(trace) : IsTerminal(trace[j]) }

\* C4, as claimed: every execution of build(), returned or thrown, has logged
\* exactly one terminal status line, and it is the last thing logged.
C4_AlwaysOneTerminalLine ==
  bstep \in {"returned", "thrown"} =>
    /\ Cardinality(TerminalLines) = 1
    /\ IsTerminal(trace[Len(trace)])

\* C4, amended: a build() that returns has logged exactly one terminal status
\* line, after every diagnostic and every other call of the batch; a build()
\* that has not returned, or that a failure made throw, has logged none.
C4_TerminalLineOnReturn ==
  /\ bstep = "returned" =>
       /\ Cardinality(TerminalLines) = 1
       /\ IsTerminal(trace[Len(trace)])
  /\ bstep # "returned" => TerminalLines = {}

\* a build() that returned after a failed compile whose diagnostics were logged
C4_Witness ==
  /\ bstep = "returned" /\ ~success
  /\ \E j \in 1..Len(trace) : trace[j].op = "log" /\ trace[j].n > 0

TaskEvents == SelectSeq(trace, LAMBDA e : e.t > 0)

\* C5: in a build() at most one per-file action is in flight, a per-file
\* action is started only when every one before it has settled, the actions
\* of a buildDir are those of its first idx matches in scan order, and the
\* calls of two actions never interleave.
C5_Sequential ==
  /\ Cardinality(InFlight) <= 1
  /\ \A t \in TaskIds : t < Len(tasks) => Settled(tasks[t])
  /\ bstep \in {"chain", "returned", "thrown"} =>
       \A i \in 1..idx : tasks[Len(tasks) - idx + i].file = matches[i]
  /\ LET te == TaskEvents
     IN  \A i \in 1..(Len(te) - 1) : te[i].t <= te[i + 1].t

\* the second script of a batch is being compiled, the first one is done
C5_Witness ==
  /\ phase = "src" /\ Len(matches) = 2 /\ idx = 2
  /\ tasks[Len(tasks)].pc = "compile"
  /\ tasks[Len(tasks) - 1].kind = "src" /\ tasks[Len(tasks) - 1].pc = "done"

Rank(kind) ==
  CASE kind = "assets" -> 1
    [] kind = "include" -> 2
    [] kind = "src" -> 3

\* the phase an event belongs to: 0 for the log lines of build() itself
EvRank(e) ==
  IF e.op = "scan" THEN Rank(CHOOSE k \in Kinds : BaseDir(k) = e.p)
  ELSE IF e.t > 0 THEN Rank(tasks[e.t].kind)
  ELSE 0

\* the phases of the scans and per-file calls, in the order of the trace
PhaseRanks ==
  SelectSeq([j \in 1..Len(trace) |-> EvRank(trace[j])], LAMBDA r : r > 0)

Scans == SelectSeq(trace, LAMBDA e : e.op = "scan")

ExpectedScans ==
  IF cfg.inputAssets THEN <<InputAssets, InputInclude, InputScripts>>
  ELSE <<InputInclude, InputScripts>>

\* C6: the scans and per-file calls of build() come in the order assets,
\* include, scripts; a per-file action of a later phase exists only when every
\* action of the earlier phases is done; without an assets input nothing is
\* scanned in, or written for, assets, and a build() that returns has still
\* scanned include and scripts.
C6_PhaseOrder ==
  /\ LET pr == PhaseRanks
     IN  \A i \in 1..(Len(pr) - 1) : pr[i] <= pr[i + 1]
  /\ \A t, u \in TaskIds :
       Rank(tasks[t].kind) < Rank(tasks[u].kind) => tasks[t].pc = "done"
  /\ LET sc == Scans
     IN  /\ \A i \in 1..Len(sc) :
              i <= Len(ExpectedScans) /\ sc[i].p = ExpectedScans[i]
         /\ \A t \in TaskIds :
              \E i \in 1..Len(sc) : sc[i].p = BaseDir(tasks[t].kind)
  /\ ~cfg.inputAssets =>
       /\ \A t \in TaskIds : tasks[t].kind # "assets"
       /\ \A j \in 1..Len(trace) :
            trace[j].p # InputAssets /\ ~IsPrefix(OutputAssets, trace[j].p)
  /\ bstep = "returned" => Len(Scans) = Len(ExpectedScans)

\* a build() that returned after it copied an asset, copied an include file
\* and compiled a script
C6_Witness ==
  /\ bstep = "returned" /\ cfg.inputAssets
  /\ \A k \in Kinds : \E t \in TaskIds : tasks[t].kind = k /\ tasks[t].pc = "done"


EventsOf(t) == { j \in 1..Len(trace) : trace[j].t = t }

\* C7: in watch mode the watchers stay registered whatever has failed, every
\* failed per-file action was caught and has exactly one error line in the
\* log, and every watcher can still trigger its action for any file.
C7_WatchSurvivesFailures ==
  bstep = "watching" =>
    /\ watchers = { WatchKinds[i] : i \in 1..Len(WatchKinds) }
    /\ \A t \in TaskIds :
         tasks[t].pc = "failed" =>
           /\ tasks[t].caught
           /\ Cardinality({ j \in EventsOf(t) :
                trace[j] = Log("error", t, tasks[t].err, tasks[t].file) }) = 1
    /\ Len(tasks) < MaxEvents =>
         \A kind \in watchers, i \in 1..MaxMatches : ENABLED WatchEvent(kind, i)

\* an action failed and its error line was logged; an event that came after
\* it started an action that ran to its end
C7_Witness ==
  /\ bstep = "watching" /\ Len(tasks) = 2
  /\ tasks[1].pc = "failed" /\ tasks[2].pc = "done"
  /\ \E i, j \in 1..Len(trace) :
       /\ i < j
       /\ trace[i] = Log("error", 1, tasks[1].err, tasks[1].file)
       /\ \A k \in EventsOf(2) : j <= k

\* C8: a copy is started only after the mkdirp of the directory of its
\* destination has succeeded in the same action, the compiler is invoked only
\* after the mkdirp of its destination directory has succeeded, and an action
\* whose mkdirp failed makes no further call.
C8_DirBeforeWrite ==
  \A j \in 1..Len(trace) :
    /\ trace[j].op = "copy" =>
         \E i \in 1..(j - 1) :
           trace[i] = Io("mkdirOk", trace[j].t, ParseDir(trace[j].p))
    /\ trace[j].op = "compile" =>
         \E i \in 1..(j - 1) : trace[i] = Io("mkdirOk", trace[j].t, trace[j].p)
    /\ trace[j].op = "mkdirFail" =>
         \A k \in (j + 1)..Len(trace) : trace[k].t # trace[j].t

\* a script of a sub-directory was copied and then compiled into the mirrored
\* plugin directory
C8_Witness ==
  \E t \in TaskIds :
    /\ tasks[t].kind = "src" /\ tasks[t].pc = "done"
    /\ Len(tasks[t].dir) > Len(Resolve(OutputPlugins))
    /\ \E i, j \in EventsOf(t) : trace[i].op = "copy" /\ trace[j].op = "compile"

\* some directory of bases contains target (it is target or an ancestor of it)
Contained(bases, target) ==
  \E i \in 1..Len(bases) :
    /\ Len(Resolve(bases[i])) <= Len(Resolve(target))
    /\ \A k \in 1..Len(Resolve(bases[i])) :
         Resolve(bases[i])[k] = Resolve(target)[k]

IsMkdirp(e) == e.op \in {"mkdir", "mkdirOk", "mkdirFail"}

IsCopy(e) == e.op \in {"copy", "copyOk", "copyFail"}

IsCompile(e) == e.op \in {"compile", "compileRet"}

\* C9: updateAsset of a file that no assets input directory contains fails
\* with the path-resolution error and makes no call at all; with
\* flatCompilation = false, compilePlugin of a script that no scripts input
\* directory contains fails with the path-resolution error, creates no plugin
\* directory and never invokes the compiler (the only calls of the action are
\* those of updateScript, into the scripts output directory).
C9_NoFallback ==
  \A t \in TaskIds :
    /\ (tasks[t].kind = "assets"
        /\ ~Contained(castArray(InputAssets), tasks[t].file)) =>
         /\ tasks[t].pc = "failed" /\ tasks[t].err = "path"
         /\ EventsOf(t) = {}
    /\ (tasks[t].kind = "src" /\ ~cfg.flatCompilation
        /\ ~Contained(castArray(InputScripts), ParseDir(tasks[t].file))) =>
         /\ tasks[t].pc \in {"mkdir", "copy", "failed"}
         /\ \A j \in EventsOf(t) :
              /\ ~IsCompile(trace[j])
              /\ IsMkdirp(trace[j]) => trace[j].p = OutputScripts
              /\ IsCopy(trace[j]) => ParseDir(trace[j].p) = OutputScripts
         /\ (tasks[t].pc = "failed"
             /\ \A j \in EventsOf(t) : trace[j].op \notin {"mkdirFail", "copyFail"})
              => tasks[t].err = "path"

\* a script outside every scripts input directory was passed to
\* updatePlugin: its raw copy was made, then compilePlugin failed with the
\* path-resolution error
C9_Witness ==
  /\ ~cfg.flatCompilation
  /\ \E t \in TaskIds :
       /\ tasks[t].kind = "src" /\ tasks[t].file = OutsideFile("src")
       /\ tasks[t].pc = "failed" /\ tasks[t].err = "path"
       /\ \E j \in EventsOf(t) : trace[j].op = "copyOk"

ExpectedLevel(severity) ==
  CASE severity = "FatalError" -> "error"
    [] severity = "Error" -> "error"
    [] severity = "Warning" -> "warn"
    [] severity = "Echo" -> "debug"

DiagnosticLines(t) == { j \in EventsOf(t) : trace[j].op = "log" /\ trace[j].n > 0 }

\* C10: the log lines that follow the return of a compile are its diagnostics,
\* one line each, in the order of the result and at the level of their
\* severity; the line of a successful outcome comes right after them, and an
\* action has no other diagnostic lines.
C10_DiagnosticsLogged ==
  /\ \A j \in 1..Len(trace) :
       trace[j].op = "compileRet" =>
         LET t == trace[j].t
             m == tasks[t].result[1].messages
         IN  /\ Compiled(t)
             /\ j + Len(m) <= Len(trace)
             /\ \A i \in 1..Len(m) :
                  trace[j + i] =
                    Ev("log", t, ExpectedLevel(m[i]), m[i], tasks[t].file, i)
             /\ Cardinality(DiagnosticLines(t)) = Len(m)
             /\ tasks[t].result[1].success =>
                  /\ j + Len(m) + 1 <= Len(trace)
                  /\ trace[j + Len(m) + 1] =
                       Log("success", t, "Compilation success:", tasks[t].file)
             /\ ~tasks[t].result[1].success =>
                  /\ tasks[t].pc = "failed"
                  /\ \A k \in EventsOf(t) : k <= j + Len(m)
  /\ \A t \in TaskIds : ~Compiled(t) => DiagnosticLines(t) = {}

\* a compile returned two diagnostics of different severities
C10_Witness ==
  \E t \in TaskIds :
    /\ Compiled(t)
    /\ Len(tasks[t].result[1].messages) = 2
    /\ tasks[t].result[1].messages[1] # tasks[t].result[1].messages[2]


\* the compile of task t emitted a diagnostic of severity FatalError or Error
HasErrorDiagnostic(t) ==
  /\ Compiled(t)
  /\ \E i \in 1..Len(tasks[t].result[1].messages) :
       tasks[t].result[1].messages[i] \in {"FatalError", "Error"}

\* the callback of task t of the running buildDir has settled
CallbackSettled(t) == t < Len(tasks) \/ acc # "pending"

\* C11: in a build(), a script whose compile emitted a FatalError or Error
\* diagnostic is a failed per-file action; with ignoreErrors = false no
\* script is started after it and build() does not return, with
\* ignoreErrors = true the aggregate success is false once its callback has
\* settled.
C11_ErrorDiagnosticFails ==
  \A t \in SrcTasks :
    HasErrorDiagnostic(t) =>
      /\ tasks[t].pc = "failed" /\ tasks[t].err = "compile"
      /\ ~ignoreErrors =>
           /\ t = Len(tasks)
           /\ acc # "resolved"
           /\ bstep \in {"chain", "thrown"}
      /\ (ignoreErrors /\ CallbackSettled(t)) =>
           /\ ~success
           /\ bstep # "thrown"

\* with ignoreErrors, the first of two scripts emitted an Error diagnostic,
\* the second compiled, and buildSrc returned false
C11_Witness ==
  /\ ignoreErrors /\ bstep = "returned" /\ ~success
  /\ Len(matches) = 2 /\ Len(tasks) >= 2
  /\ HasErrorDiagnostic(Len(tasks) - 1)
  /\ CompileSucceeded(Len(tasks))


\* C12, as claimed: a successful compile result is reported as a success, and
\* the outcome of the script build depends on nothing but the success flags
\* of the compile results: buildSrc returns true exactly when no compile
\* result has success = false.  Stated for the builds with
\* ignoreErrors = false in which every path resolution succeeds.
C12_OnlySuccessFlags ==
  /\ \A t \in SrcTasks : CompileSucceeded(t) => tasks[t].pc = "done"
  /\ (BuildSrcOver /\ ~ignoreErrors /\ \A t \in SrcTasks : tasks[t].err # "path") =>
       ((bstep = "returned" /\ success) <=>
          \A t \in SrcTasks : Compiled(t) => CompileSucceeded(t))

\* the log line that reports the successful compile of task t
SuccessLines(t) ==
  { j \in EventsOf(t) :
      trace[j] = Log("success", t, "Compilation success:", tasks[t].file) }

\* C12, amended: a compile result whose success flag is true is reported as
\* a success (one success line, the action resolves, the aggregate is not
\* set to false by it) whatever Warning or Echo diagnostics it carries, and
\* the diagnostics affect the batch only through the success flag; a script
\* fails exactly when its compile result has success = false or its action
\* threw without a compile result (path resolution, copy or directory
\* creation), and the script build returns true exactly when no script failed.
C12_WarningsNeverFail ==
  /\ \A t \in SrcTasks :
       /\ CompileSucceeded(t) =>
            /\ tasks[t].pc = "done"
            /\ Cardinality(SuccessLines(t)) = 1
       /\ tasks[t].pc = "failed" <=>
            \/ Compiled(t) /\ ~CompileSucceeded(t)
            \/ ~Compiled(t) /\ tasks[t].err \in {"io", "path"}
  /\ BuildSrcOver =>
       ((bstep = "returned" /\ success) <=>
          \A t \in SrcTasks : tasks[t].pc # "failed")

\* a script build that returned true after a compile that carried two
\* Warning or Echo diagnostics
C12_Witness ==
  /\ BuildSrcOver /\ bstep = "returned" /\ success
  /\ \E t \in SrcTasks :
       /\ CompileSucceeded(t)
       /\ Len(tasks[t].result[1].messages) = 2


\* the directory of a script relative to the scripts input directory
ScriptRelDir(filePath) ==
  SubSeq(ParseDir(Resolve(filePath)), Len(Resolve(InputScripts)) + 1,
         Len(ParseDir(Resolve(filePath))))

ExpectedPluginDir(filePath) ==
  IF cfg.flatCompilation THEN Cwd \o OutputPlugins
  ELSE Cwd \o OutputPlugins \o ScriptRelDir(filePath)

\* C13: whenever compilePlugin invokes the compiler, the destination
\* directory it passes (and has created, and reports the plugin in) is the
\* plugins output root with flatCompilation, and otherwise that root joined
\* with the script's directory relative to the scripts input directory that
\* contains it; with flatCompilation no action fails with the
\* path-resolution error.
C13_PluginDestDir ==
  /\ \A j \in 1..Len(trace) :
       /\ trace[j].op = "compile" =>
            /\ trace[j].p = ExpectedPluginDir(tasks[trace[j].t].file)
            /\ cfg.flatCompilation \/
                 Contained(castArray(InputScripts), ParseDir(tasks[trace[j].t].file))
       /\ (trace[j].op = "log" /\ trace[j].txt = "Plugin updated:") =>
            ParseDir(trace[j].p) = ExpectedPluginDir(tasks[trace[j].t].file)
  /\ cfg.flatCompilation =>
       \A t \in TaskIds : tasks[t].kind = "src" => tasks[t].err # "path"

\* without flatCompilation, a script of a sub-directory of the scripts input
\* directory was compiled into the sub-directory of the same name
C13_Witness ==
  /\ ~cfg.flatCompilation
  /\ \E t \in TaskIds :
       /\ tasks[t].kind = "src" /\ tasks[t].pc = "done"
       /\ tasks[t].file = <<"scripts", "sub", "f1.sma">>
       /\ tasks[t].dir = <<"/", "proj", "dist", "plugins", "sub">>


\* the destination the destination-root rule of `kind` gives filePath
ExpectedCopyDest(kind, filePath) ==
  CASE kind = "src" -> OutputScripts \o <<filePath[Len(filePath)]>>
    [] kind = "include" -> OutputInclude \o <<filePath[Len(filePath)]>>
    [] kind = "assets" ->
         OutputAssets \o SubSeq(Resolve(filePath), Len(Resolve(InputAssets)) + 1,
                                Len(Resolve(filePath)))

\* C14: every copy of a script or an include file goes to the output root
\* joined with the file's base name only; every copy of an asset goes to the
\* assets output root joined with the asset's path relative to the assets
\* input directory that contains it, after the directory of that destination
\* was created; the "updated" line reports the same destination.
C14_DestinationRules ==
  \A j \in 1..Len(trace) :
    LET t == trace[j].t
    IN  /\ trace[j].op = "copy" =>
             /\ trace[j].p = ExpectedCopyDest(tasks[t].kind, tasks[t].file)
             /\ tasks[t].kind = "assets" =>
                  /\ Contained(castArray(InputAssets), tasks[t].file)
                  /\ \E i \in 1..(j - 1) :
                       trace[i] = Io("mkdirOk", t, Front(trace[j].p))
        /\ (trace[j].op = "log" /\ trace[j].txt = UpdatedText(tasks[t].kind)
            /\ t > 0) =>
             trace[j].p = ExpectedCopyDest(tasks[t].kind, tasks[t].file)

\* the asset of a sub-directory of the assets input directory was copied into
\* the sub-directory of the same name of the assets output directory
C14_Witness ==
  \E t \in TaskIds :
    /\ tasks[t].kind = "assets" /\ tasks[t].pc = "done"
    /\ tasks[t].file = <<"assets", "sub", "f1.wad">>
    /\ \E j \in EventsOf(t) :
         trace[j] = Io("copyOk", t, <<"dist", "assets", "sub", "f1.wad">>)
    /\ \E j \in EventsOf(t) :
         trace[j] = Io("mkdirOk", t, <<"dist", "assets", "sub">>)


\* the tasks of the batch that a copy or directory-creation failure ended
IoFailed == { t \in TaskIds : tasks[t].err = "io" }

\* C15: in a build(), a task that a copy or directory-creation failure ended
\* is the last task ever started, whatever the phase and whatever
\* ignoreErrors: the failure is not swallowed (the chain never resumes),
\* nothing is logged or started after it, and build() throws instead of
\* returning.
C15_IoFailurePropagates ==
  \A t \in IoFailed :
    /\ t = Len(tasks)
    /\ \A j \in 1..Len(trace) : trace[j].t \in {0, t} => ~IsTerminal(trace[j])
    /\ acc # "resolved"
    /\ bstep \in {"chain", "thrown"}


\* a call compilePlugin makes: the mkdirp of the plugin directory, the compiler
IsPluginStep(e) ==
  \/ e.op = "compile"
  \/ e.op = "mkdir" /\ e.p # OutputScripts

\* a call updateScript makes, started or settled
IsScriptStep(e) ==
  \/ e.op \in {"copy", "copyOk", "copyFail"}
  \/ e.op \in {"mkdir", "mkdirOk", "mkdirFail"} /\ e.p = OutputScripts

\* C16: for every script action, with a scripts output directory every call
\* of compilePlugin (the mkdirp of the plugin directory, the compiler) comes
\* after the raw-script copy of the same action has completed, and none is
\* made when the mkdirp or the copy of the raw script failed; without a
\* scripts output directory the action makes no copy and no mkdirp for the
\* raw script and goes straight into compilePlugin, whose first call is the
\* mkdirp of the plugin directory.
C16_CopyThenCompile ==
  \A t \in SrcTasks :
    LET E == EventsOf(t)
        copied == Io("copyOk", t, Join(OutputScripts, <<ParseBase(tasks[t].file)>>))
    IN  /\ cfg.outputScripts =>
             /\ \A j \in E :
                  IsPluginStep(trace[j]) =>
                    \E i \in E : i < j /\ trace[i] = copied
             /\ (\E i \in E : trace[i].op = "copyFail"
                                \/ trace[i] = Io("mkdirFail", t, OutputScripts)) =>
                  \A j \in E : ~IsPluginStep(trace[j])
             /\ E # {}
             /\ \A j \in E :
                  (\A i \in E : j <= i) => trace[j] = Io("mkdir", t, OutputScripts)
        /\ ~cfg.outputScripts =>
             /\ \A j \in E : ~IsScriptStep(trace[j])
             /\ tasks[t].err # "path" =>
                  /\ E # {}
                  /\ \A j \in E :
                       (\A i \in E : j <= i) =>
                         trace[j] = Io("mkdir", t, ExpectedPluginDir(tasks[t].file))

\* under watch, the raw-script copy of one script failed and the script was
\* never compiled, while another script was copied and then compiled
C16_Witness ==
  /\ bstep = "watching" /\ cfg.outputScripts /\ Len(tasks) = 2
  /\ tasks[1].kind = "src" /\ tasks[2].kind = "src"
  /\ \E j \in EventsOf(1) : trace[j].op = "copyFail"
  /\ \A j \in EventsOf(1) : trace[j].op # "compile"
  /\ tasks[2].pc = "done"
  /\ \E i, j \in EventsOf(2) :
       /\ i < j
       /\ trace[i].op = "copyOk"
       /\ trace[j].op = "compile"


\* the files task t has started to write: the destination of its copy and
\* the plugin its compiler run produces
Destinations(t) ==
  { Resolve(trace[j].p) : j \in { i \in EventsOf(t) : trace[i].op = "copy" } }
    \cup { Join(trace[j].p, <<PluginName(ParseBase(tasks[t].file))>>) :
             j \in { i \in EventsOf(t) : trace[i].op = "compile" } }

\* C17: under watch, two handlers that are in flight at the same time have
\* not started to write the same destination file, be it the copy of a
\* script, an include or an asset, or a compiled plugin.
C17_DistinctDestinations ==
  bstep = "watching" =>
    \A t1, t2 \in InFlight :
      t1 # t2 => Destinations(t1) \cap Destinations(t2) = {}


\* C18: without flatCompilation, a script action fails with the
\* path-resolution error only when no scripts input directory contains the
\* script; a script located directly in a scripts input directory does not
\* fail that way, and its compiler run is given the plugins output root.
C18_InBaseScriptCompiles ==
  ~cfg.flatCompilation =>
    \A t \in SrcTasks :
      /\ tasks[t].err = "path" =>
           ~Contained(castArray(InputScripts), ParseDir(tasks[t].file))
      /\ Resolve(ParseDir(tasks[t].file)) = Resolve(InputScripts) =>
           \A j \in EventsOf(t) :
             trace[j].op = "compile" => trace[j].p = Resolve(OutputPlugins)

====
